---- MODULE Spec2Model ----
(***************************************************************************)
(* pmanage: a bounded-concurrency command runner.  src/pmanage.js is the   *)
(* extended variant; src/unnamed/part_000 is the basic variant: the same   *)
(* acquireSlot, releaseSlot, schedule and setupWorkload without the        *)
(* comment filter, the finished counter, the utilization summary and the   *)
(* uptime timer.  `variant` says which of the two programs runs.           *)
(*                                                                         *)
(* The node.js event loop is modelled at the granularity the code can      *)
(* observe: main() runs synchronously to its end, every continuation of    *)
(* an `await acquireSlot()` is a microtask, and the end of a child         *)
(* command is a macrotask that only runs when the microtask queue is       *)
(* empty.  Strings are sequences of one-character strings.                 *)
(***************************************************************************)
EXTENDS Integers, Sequences, FiniteSets, TLC

\* ---------------------------------------------------------------- bounds
MaxTasks == 3    \* longest workload file, in lines
MaxSlots == 2    \* largest -n
MaxTime == 2     \* last clock tick
MaxUptime == 1   \* most firings of the uptime timer that are followed
MaxTokens == 4   \* longest workload text given to setupWorkload alone, in tokens

\* --------------------------------------------------------------- strings
EOL == "\n"
Upper == {"A", "B"}

\* the workload lines and files the scheduler runs are drawn from
Lines == { <<"a">>, <<"@", "A">>, <<"#", "@", "A">> }
Values == { <<"x">>, <<"x", ",", "y">> }
ArgNames == { <<"A">> }

RECURSIVE SeqsUpTo(_, _)
SeqsUpTo(S, n) ==
    IF n = 0 THEN { <<>> }
    ELSE LET shorter == SeqsUpTo(S, n - 1)
         IN  shorter \cup { Append(s, x) : s \in { t \in shorter : Len(t) = n - 1 }, x \in S }

RECURSIVE fileOf(_, _)
fileOf(ls, terminated) ==
    IF ls = <<>> THEN <<>>
    ELSE IF Len(ls) = 1 THEN Head(ls) \o (IF terminated THEN <<EOL>> ELSE <<>>)
    ELSE Head(ls) \o <<EOL>> \o fileOf(Tail(ls), terminated)

Files == { fileOf(ls, term) : ls \in SeqsUpTo(Lines, MaxTasks), term \in BOOLEAN }
Args == UNION { [D -> Values] : D \in SUBSET ArgNames }

\* the workload texts and bindings setupWorkload alone is applied to
Tokens == { <<"a">>, <<"@", "A">>, <<"@", "A", "B">>, <<"#">>, <<EOL>> }
ExpandNames == { <<"A">>, <<"A", "B">> }

RECURSIVE concat(_)
concat(ts) == IF Len(ts) = 0 THEN <<>> ELSE Head(ts) \o concat(Tail(ts))

Texts == { concat(ts) : ts \in SeqsUpTo(Tokens, MaxTokens) }
ExpandArgs == UNION { [D -> Values] : D \in SUBSET ExpandNames }

\* ------------------------------------------------- setupWorkload helpers
\* the segments of s from index `from` on, scanning at index i
RECURSIVE splitFrom(_, _, _, _)
splitFrom(s, sep, from, i) ==
    IF i > Len(s) THEN << SubSeq(s, from, Len(s)) >>
    ELSE IF s[i] = sep
         THEN << SubSeq(s, from, i - 1) >> \o splitFrom(s, sep, i + 1, i + 1)
         ELSE splitFrom(s, sep, from, i + 1)

split(s, sep) == splitFrom(s, sep, 1, 1)

notComment(value) == Len(value) = 0 \/ value[1] # "#"

pop(a) == IF Len(a) = 0 THEN a ELSE SubSeq(a, 1, Len(a) - 1)

RECURSIVE upperRun(_)
upperRun(s) ==
    IF Len(s) > 0 /\ Head(s) \in Upper THEN << Head(s) >> \o upperRun(Tail(s)) ELSE <<>>

\* line.match(/@[A-Z]+/g), each match without its '@'
RECURSIVE match(_)
match(line) ==
    IF Len(line) = 0 THEN <<>>
    ELSE LET run == upperRun(Tail(line))
         IN  IF Head(line) = "@" /\ Len(run) > 0
             THEN << run >> \o match(SubSeq(line, Len(run) + 2, Len(line)))
             ELSE match(Tail(line))

\* Set.add, keeping insertion order
add(defines, d) ==
    IF \E i \in 1..Len(defines) : defines[i] = d THEN defines ELSE Append(defines, d)

RECURSIVE addAll(_, _)
addAll(defines, ds) ==
    IF Len(ds) = 0 THEN defines ELSE addAll(add(defines, Head(ds)), Tail(ds))

RECURSIVE extractDefines(_, _)
extractDefines(defines, lines) ==
    IF Len(lines) = 0 THEN defines
    ELSE extractDefines(addAll(defines, match(Head(lines))), Tail(lines))

\* String.replace with a global literal pattern
RECURSIVE replaceAll(_, _, _)
replaceAll(s, pat, val) ==
    IF Len(s) < Len(pat) THEN s
    ELSE IF SubSeq(s, 1, Len(pat)) = pat
         THEN val \o replaceAll(SubSeq(s, Len(pat) + 1, Len(s)), pat, val)
         ELSE << Head(s) >> \o replaceAll(Tail(s), pat, val)

commasToSpaces(v) == [ i \in 1..Len(v) |-> IF v[i] = "," THEN " " ELSE v[i] ]

RECURSIVE expandLine(_, _, _)
expandLine(line, defines, a) ==
    IF Len(defines) = 0 THEN line
    ELSE expandLine(replaceAll(line, << "@" >> \o Head(defines), commasToSpaces(a[Head(defines)])),
                    Tail(defines), a)

readTasks(text, v) ==
    pop(IF v = "extended" THEN SelectSeq(split(text, EOL), notComment)
                          ELSE split(text, EOL))

missingDefines(defines, a) ==
    { defines[i] : i \in { k \in 1..Len(defines) : defines[k] \notin DOMAIN a } }

\* expansion without the check: unbound names are left in place
setupWorkloadUnchecked(text, a, v) ==
    LET lines == readTasks(text, v)
        bound(d) == d \in DOMAIN a
        defines == SelectSeq(extractDefines(<<>>, lines), bound)
    IN  [ exit |-> FALSE,
          tasks |-> [ i \in 1..Len(lines) |-> expandLine(lines[i], defines, a) ] ]

setupWorkload(text, a, v) ==
    LET lines == readTasks(text, v)
        defines == extractDefines(<<>>, lines)
    IN  IF missingDefines(defines, a) # {}
        THEN [ exit |-> TRUE, tasks |-> <<>> ]
        ELSE [ exit |-> FALSE,
               tasks |-> [ i \in 1..Len(lines) |-> expandLine(lines[i], defines, a) ] ]

\* ------------------------------------------------------------------ state
Variants == { "basic", "extended" }

VARIABLES
    variant,           \* which program runs
    contents,          \* text of the workload file (-w)
    args,              \* the --NAME=value bindings
    n_arg,             \* the -n argument (or os.cpus().length)
    now,               \* the wall clock, in ticks
    proc,              \* "running", "exit1" (process.exit(1)), "crashed"
    main_pc,           \* "start", "schedule" (inside tasks.forEach), "done"
    next_idx,          \* next forEach index
    tasks,             \* the expanded command lines
    task_pc,           \* per task: position of its async callback
    microtasks,        \* continuations of `await acquireSlot()` ready to run
    total_slots, avail_slots, start_time, pending_tasks, thread_end_times,
    uptime_interval,   \* "null", "set", "cleared"
    completed_tasks,
    start_order,       \* indices of the "starting" lines printed, in order
    finished_log,      \* the "finished" lines printed: [task, num]
    released,          \* tasks whose callback reached releaseSlot()
    summaries,         \* the utilization fractions printed by fin()
    uptime_reports     \* firings of the uptime timer

vars == << variant, contents, args, n_arg, now, proc, main_pc, next_idx, tasks, task_pc,
           microtasks, total_slots, avail_slots, start_time, pending_tasks,
           thread_end_times, uptime_interval, completed_tasks, start_order,
           finished_log, released, summaries, uptime_reports >>

inputs == << variant, contents, args, n_arg >>
semaphore == << avail_slots, pending_tasks >>
finVars == << summaries, uptime_interval >>
outputs == << start_order, finished_log, completed_tasks >>

\* the module-level state when the file has been loaded
loaded ==
    /\ now = 0
    /\ proc = "running"
    /\ main_pc = "start"
    /\ next_idx = 1
    /\ tasks = <<>>
    /\ task_pc = <<>>
    /\ microtasks = <<>>
    /\ total_slots = 0
    /\ avail_slots = 0
    /\ start_time = 0
    /\ pending_tasks = <<>>
    /\ thread_end_times = <<>>
    /\ uptime_interval = "null"
    /\ completed_tasks = 0
    /\ start_order = <<>>
    /\ finished_log = <<>>
    /\ released = {}
    /\ summaries = <<>>
    /\ uptime_reports = 0

Init ==
    /\ variant \in Variants
    /\ contents \in Files
    /\ args \in Args
    /\ n_arg \in 1..MaxSlots
    /\ loaded

\* ------------------------------------------------------------ operations
RECURSIVE sum(_)
sum(s) == IF Len(s) = 0 THEN 0 ELSE Head(s) + sum(Tail(s))

\* fin(): the fraction printed as utilization is num / den * 100
utilization(end_time, ends) ==
    LET total_duration == end_time - start_time
        unused_area == sum([ i \in 1..Len(ends) |-> end_time - ends[i] ])
        total_area == total_duration * total_slots
    IN  [ num |-> total_area - unused_area, den |-> total_area, end_time |-> end_time ]

fin(ends) ==
    /\ summaries' = Append(summaries, utilization(now, ends))
    /\ uptime_interval' = "cleared"

\* a guard that lets an acquirer in when no slot is left
slotFreeOffByOne == avail_slots >= 0

\* a guard that keeps the last slot unused
slotFreeStrict == avail_slots > 1

slotFree == avail_slots > 0

acquireSlot(t) ==
    IF slotFree
    THEN /\ avail_slots' = avail_slots - 1
         /\ task_pc' = [ task_pc EXCEPT ![t] = "admitted" ]
         /\ microtasks' = Append(microtasks, t)
         /\ UNCHANGED pending_tasks
    ELSE /\ pending_tasks' = Append(pending_tasks, t)
         /\ task_pc' = [ task_pc EXCEPT ![t] = "waiting" ]
         /\ UNCHANGED << avail_slots, microtasks >>

\* Array.pop where Array.shift is meant: wakes the newest waiter
popLast(q) == [ first |-> q[Len(q)], rest |-> SubSeq(q, 1, Len(q) - 1) ]

shift(q) == [ first |-> Head(q), rest |-> Tail(q) ]

\* a completion test that fires as soon as any slot is idle
anyIdle(avail) == avail > 0

allIdle(avail) == avail = total_slots

\* a hand-off that also counts the slot as free
wakeWaiterIncrementing(t) ==
    LET s == shift(pending_tasks)
    IN  /\ pending_tasks' = s.rest
        /\ microtasks' = Append(microtasks, s.first)
        /\ task_pc' = [ task_pc EXCEPT ![t] = "done", ![s.first] = "resumed" ]
        /\ avail_slots' = avail_slots + 1
        /\ UNCHANGED << thread_end_times, finVars >>

\* a hand-off that dequeues the waiter and never resolves its promise
wakeWaiterLost(t) ==
    LET s == shift(pending_tasks)
    IN  /\ pending_tasks' = s.rest
        /\ task_pc' = [ task_pc EXCEPT ![t] = "done" ]
        /\ UNCHANGED << microtasks, avail_slots, thread_end_times, finVars >>

\* a hand-off that records an idle timestamp
wakeWaiterStamping(t) ==
    LET s == shift(pending_tasks)
    IN  /\ pending_tasks' = s.rest
        /\ microtasks' = Append(microtasks, s.first)
        /\ task_pc' = [ task_pc EXCEPT ![t] = "done", ![s.first] = "resumed" ]
        /\ thread_end_times' = Append(thread_end_times, now)
        /\ UNCHANGED << avail_slots, finVars >>

\* releaseSlot with a task pending: wake the head of pending_tasks
wakeWaiter(t) ==
    LET s == shift(pending_tasks)
    IN  /\ pending_tasks' = s.rest
        /\ microtasks' = Append(microtasks, s.first)
        /\ task_pc' = [ task_pc EXCEPT ![t] = "done", ![s.first] = "resumed" ]
        /\ UNCHANGED << avail_slots, thread_end_times, finVars >>

\* a release whose idle-time bookkeeping, in the extended variant, takes
\* the place of counting the slot as free
freeSlotRecordingOnly(t) ==
    /\ task_pc' = [ task_pc EXCEPT ![t] = "done" ]
    /\ IF variant = "extended"
       THEN /\ thread_end_times' = Append(thread_end_times, now)
            /\ UNCHANGED << avail_slots, finVars >>
       ELSE /\ avail_slots' = avail_slots + 1
            /\ UNCHANGED << thread_end_times, finVars >>
    /\ UNCHANGED << pending_tasks, microtasks >>

\* releaseSlot with no task pending: free the slot
freeSlot(t) ==
    /\ avail_slots' = avail_slots + 1
    /\ task_pc' = [ task_pc EXCEPT ![t] = "done" ]
    /\ IF variant = "extended"
       THEN /\ thread_end_times' = Append(thread_end_times, now)
            /\ IF allIdle(avail_slots + 1)
               THEN fin(Append(thread_end_times, now))
               ELSE UNCHANGED finVars
       ELSE UNCHANGED << thread_end_times, finVars >>
    /\ UNCHANGED << pending_tasks, microtasks >>

releaseSlot(t) ==
    /\ released' = released \cup {t}
    /\ IF Len(pending_tasks) > 0 THEN wakeWaiter(t) ELSE freeSlot(t)

\* main() up to the call of schedule(); begin() only prints the host line,
\* and process.exit(1) inside setupWorkload ends main before setInterval
main ==
    /\ proc = "running"
    /\ main_pc = "start"
    /\ avail_slots' = n_arg
    /\ total_slots' = IF variant = "extended" THEN n_arg ELSE total_slots
    /\ LET r == setupWorkload(contents, args, variant)
       IN  IF r.exit
           THEN /\ proc' = "exit1"
                /\ UNCHANGED << main_pc, tasks, task_pc, uptime_interval >>
           ELSE /\ tasks' = r.tasks
                /\ task_pc' = [ i \in 1..Len(r.tasks) |-> "unsubmitted" ]
                /\ uptime_interval' = IF variant = "extended" THEN "set" ELSE uptime_interval
                /\ main_pc' = IF Len(r.tasks) = 0 THEN "done" ELSE "schedule"
                /\ UNCHANGED proc
    /\ UNCHANGED << inputs, now, next_idx, microtasks, start_time, pending_tasks,
                    thread_end_times, outputs, released, summaries, uptime_reports >>

\* one iteration of tasks.forEach: the callback runs up to its first await
schedule ==
    /\ proc = "running"
    /\ main_pc = "schedule"
    /\ acquireSlot(next_idx)
    /\ next_idx' = next_idx + 1
    /\ main_pc' = IF next_idx = Len(tasks) THEN "done" ELSE "schedule"
    /\ UNCHANGED << inputs, now, proc, tasks, total_slots, start_time,
                    thread_end_times, finVars, outputs, released, uptime_reports >>

\* the callback after `await acquireSlot()`: print "starting", call exec
startTask(t) ==
    /\ proc = "running"
    /\ main_pc = "done"
    /\ Len(microtasks) > 0
    /\ t = Head(microtasks)
    /\ microtasks' = Tail(microtasks)
    /\ start_order' = Append(start_order, t)
    /\ task_pc' = [ task_pc EXCEPT ![t] = "running" ]
    /\ UNCHANGED << inputs, now, proc, main_pc, next_idx, tasks, total_slots,
                    semaphore, start_time, thread_end_times, finVars,
                    completed_tasks, finished_log, released, uptime_reports >>

\* the number printed in "(k/total) finished"
finishedNumberByIndex(t) == t

finishedNumber(t) == completed_tasks + 1

commandRunning(t) ==
    /\ proc = "running"
    /\ main_pc = "done"
    /\ Len(microtasks) = 0
    /\ t \in DOMAIN task_pc
    /\ task_pc[t] = "running"

\* the command exits 0: print "finished", count it, release the slot
finishTask(t) ==
    /\ commandRunning(t)
    /\ IF variant = "extended"
       THEN /\ finished_log' = Append(finished_log, [ task |-> t, num |-> finishedNumber(t) ])
            /\ completed_tasks' = completed_tasks + 1
       ELSE /\ finished_log' = Append(finished_log, [ task |-> t ])
            /\ UNCHANGED completed_tasks
    /\ releaseSlot(t)
    /\ UNCHANGED << inputs, now, proc, main_pc, next_idx, tasks, total_slots,
                    start_time, start_order, uptime_reports >>

\* the command fails: `await workload_promise` throws and the callback's
\* promise is rejected with nobody handling it; node either warns and goes
\* on or ends the process, depending on its unhandled-rejections mode
failTask(t) ==
    /\ commandRunning(t)
    /\ task_pc' = [ task_pc EXCEPT ![t] = "failed" ]
    /\ proc' \in { "running", "crashed" }
    /\ UNCHANGED << inputs, now, main_pc, next_idx, tasks, microtasks, total_slots,
                    semaphore, start_time, thread_end_times, finVars, outputs,
                    released, uptime_reports >>

\* the setInterval timer fires
uptime ==
    /\ proc = "running"
    /\ main_pc = "done"
    /\ Len(microtasks) = 0
    /\ uptime_interval = "set"
    /\ uptime_reports < MaxUptime
    /\ uptime_reports' = uptime_reports + 1
    /\ UNCHANGED << inputs, now, proc, main_pc, next_idx, tasks, task_pc, microtasks,
                    total_slots, semaphore, start_time, thread_end_times, finVars,
                    outputs, released >>

Tick ==
    /\ proc = "running"
    /\ now < MaxTime
    /\ now' = now + 1
    /\ UNCHANGED << inputs, proc, main_pc, next_idx, tasks, task_pc, microtasks,
                    total_slots, semaphore, start_time, thread_end_times, finVars,
                    outputs, released, uptime_reports >>

Start == \E t \in 1..MaxTasks : startTask(t)
Finish == \E t \in 1..MaxTasks : finishTask(t)
Fail == \E t \in 1..MaxTasks : failTask(t)

Next == main \/ schedule \/ Start \/ Finish \/ Fail \/ uptime \/ Tick

Spec == Init /\ [][Next]_vars

\* main() alone, on every text and binding of Texts and ExpandArgs
InitExpand ==
    /\ variant \in Variants
    /\ contents \in Texts
    /\ args \in ExpandArgs
    /\ n_arg = 1
    /\ loaded

SpecExpand == InitExpand /\ [][main]_vars

\* Once main() has run: tasks.forEach runs to its end, every queued
\* continuation is run, and every command ends (with or without an error).
FairSpec ==
    /\ Spec
    /\ WF_vars(schedule)
    /\ WF_vars(Start)
    /\ \A t \in 1..MaxTasks : WF_vars(finishTask(t) \/ failTask(t))

\* ---------------------------------------------------------------- claims
submitted == { t \in DOMAIN task_pc : task_pc[t] # "unsubmitted" }

\* tasks admitted by acquireSlot (at once, or by a hand-off) and not yet
\* through releaseSlot
holders == { t \in submitted : task_pc[t] # "waiting" } \ released

\* tasks admitted whose command has not ended yet
runningTasks == { t \in DOMAIN task_pc : task_pc[t] \in { "admitted", "resumed", "running" } }

\* C1: in every reachable state the number of tasks that hold a slot
\* (admitted and not yet through releaseSlot) is at most the capacity N.
C1_AtMostNHolders == Cardinality(holders) <= n_arg

\* C1 witness: all N slots are held after a release handed one over while
\* another task still waits.
C1_Witness ==
    /\ Cardinality(holders) = n_arg
    /\ released # {}
    /\ Len(pending_tasks) > 0

\* main has set the capacity
mainRan == main_pc # "start" \/ proc = "exit1"

\* C2: avail_slots plus the number of running tasks (admitted, command not
\* yet ended by success or by a process error) equals the capacity, which
\* is total_slots in the extended variant.
C2_SlotAccounting ==
    mainRan =>
        /\ avail_slots + Cardinality(runningTasks) = n_arg
        /\ variant = "extended" => total_slots = n_arg

\* C3: a task whose command failed with a process error has executed
\* releaseSlot, like a task whose command succeeded.
C3_FailureReleasesSlot ==
    \A t \in DOMAIN task_pc : task_pc[t] \in { "done", "failed" } => t \in released

taskAt(t) == IF t \in DOMAIN task_pc THEN task_pc[t] ELSE "none"

\* C4: while the process lives and every command ends, a task waiting in
\* pending_tasks is eventually admitted, whatever happened to other tasks.
C4_FailureIsolation ==
    \A t \in 1..MaxTasks :
        (taskAt(t) = "waiting") ~> (taskAt(t) # "waiting" \/ proc # "running")

\* C5: pending_tasks holds its tasks in submission order, and no task is
\* admitted while a task submitted before it still waits: of two enqueued
\* tasks the earlier one is resumed first.
C5_FifoAdmission ==
    /\ \A k \in 1..(Len(pending_tasks) - 1) : pending_tasks[k] < pending_tasks[k + 1]
    /\ \A i, j \in DOMAIN task_pc :
        (i < j /\ task_pc[i] = "waiting") => task_pc[j] \in { "unsubmitted", "waiting" }

\* C5 witness: with one slot, tasks 2 and 3 were both enqueued, a release
\* has resumed task 2 and task 3 still waits.
C5_Witness ==
    /\ n_arg = 1
    /\ Len(task_pc) >= 3
    /\ task_pc[2] = "resumed"
    /\ task_pc[3] = "waiting"
    /\ pending_tasks = << 3 >>

\* C6: the summary is emitted at most once, and only after every one of
\* the M >= 1 tasks has executed releaseSlot: never while a task is
\* running, about to run or waiting in pending_tasks.
C6_SummaryOnceAtEnd ==
    /\ Len(summaries) <= 1
    /\ Len(summaries) = 1 =>
        /\ main_pc = "done"
        /\ Len(tasks) >= 1
        /\ released = DOMAIN task_pc
        /\ \A t \in DOMAIN task_pc : task_pc[t] = "done"
        /\ pending_tasks = <<>>
        /\ microtasks = <<>>

\* C6 witness: the summary has been emitted for a run in which tasks had
\* to wait for a slot.
C6_Witness ==
    /\ Len(summaries) = 1
    /\ Len(tasks) > n_arg
    /\ n_arg >= 2

\* C7: in the extended variant, once a workload of M >= 1 tasks is scheduled and every command
\* ends, the summary is eventually emitted (while the process lives),
\* however many commands ended with a process error.
C7_RunCompletes ==
    (variant = "extended" /\ main_pc = "done" /\ Len(tasks) >= 1)
        ~> (Len(summaries) >= 1 \/ proc # "running")

C9_UtilizationBound ==
    \A k \in 1..Len(summaries) :
        /\ summaries[k].den # 0
        /\ 0 <= summaries[k].num
        /\ summaries[k].num <= summaries[k].den
        /\ (n_arg = 1 /\ Len(tasks) = 1) => summaries[k].num = summaries[k].den

\* the placeholder names a line references: every '@' followed by an
\* uppercase letter starts one, named by the maximal uppercase run
placeholders(line) ==
    { upperRun(SubSeq(line, p + 1, Len(line))) :
        p \in { q \in 1..(Len(line) - 1) : line[q] = "@" /\ line[q + 1] \in Upper } }

unboundPlaceholder ==
    LET lines == readTasks(contents, variant)
    IN  \E i \in 1..Len(lines) : \E name \in placeholders(lines[i]) : name \notin DOMAIN args

fileLines(text) ==
    LET parts == split(text, EOL)
    IN  IF parts[Len(parts)] = <<>> THEN SubSeq(parts, 1, Len(parts) - 1) ELSE parts

commandLines(text, v) ==
    IF v = "extended" THEN SelectSeq(fileLines(text), notComment) ELSE fileLines(text)

noPlaceholderText ==
    \A i \in 1..Len(split(contents, EOL)) : placeholders(split(contents, EOL)[i]) = {}

\* C11: for a text without placeholders setupWorkload returns exactly the
\* text's lines in order, less the comment lines (extended variant), whether
\* or not the text ends with a line terminator.
C11_ExpansionIdentity ==
    (main_pc # "start" /\ noPlaceholderText) => tasks = commandLines(contents, variant)

\* a line with every placeholder occurrence ('@' and its maximal uppercase
\* run) replaced by the bound value, commas turned into spaces
RECURSIVE substitute(_, _)
substitute(line, a) ==
    IF Len(line) = 0 THEN <<>>
    ELSE LET run == upperRun(Tail(line))
         IN  IF Head(line) = "@" /\ Len(run) > 0
             THEN commasToSpaces(a[run]) \o substitute(SubSeq(line, Len(run) + 2, Len(line)), a)
             ELSE << Head(line) >> \o substitute(Tail(line), a)

\* C12: with every placeholder bound, each line setupWorkload returns is
\* its input line with every placeholder occurrence replaced by its own
\* value, whatever the order the names were met in.
C12_SubstitutionCorrect ==
    main_pc # "start" =>
        LET lines == readTasks(contents, variant)
        IN  tasks = [ i \in 1..Len(lines) |-> substitute(lines[i], args) ]

\* C13: pending_tasks is non-empty only while avail_slots is 0.
C13_WaitersOnlyWhenFull == Len(pending_tasks) > 0 => avail_slots = 0

\* C13 witness: after a release a task is running, another still waits and
\* no slot is free.
C13_Witness ==
    /\ released # {}
    /\ runningTasks # {}
    /\ Len(pending_tasks) > 0
    /\ avail_slots = 0

\* a step in which some task's callback executes releaseSlot
releaseStep == released' # released

\* C14: a releaseSlot executed with a task pending removes exactly the head
\* of pending_tasks, resumes it and leaves avail_slots unchanged; one
\* executed with nothing pending adds one to avail_slots and leaves
\* pending_tasks (and the queued continuations) unchanged.
C14_DirectHandOff ==
    [][ releaseStep =>
          IF Len(pending_tasks) > 0
          THEN /\ pending_tasks' = Tail(pending_tasks)
               /\ microtasks' = Append(microtasks, Head(pending_tasks))
               /\ task_pc'[Head(pending_tasks)] = "resumed"
               /\ avail_slots' = avail_slots
          ELSE /\ avail_slots' = avail_slots + 1
               /\ pending_tasks' = pending_tasks
               /\ microtasks' = microtasks ]_vars

\* C14 witness: a release has just handed its slot to task 2 while task 3
\* goes on waiting, and no slot was counted free.
C14_Witness ==
    /\ Len(task_pc) >= 3
    /\ task_pc[1] = "done"
    /\ task_pc[2] = "resumed"
    /\ microtasks = << 2 >>
    /\ pending_tasks = << 3 >>
    /\ avail_slots = 0
    /\ released = { 1 }

someFailed == \E t \in DOMAIN task_pc : task_pc[t] = "failed"

\* every task was admitted, executed and finished, nobody waits, every slot
\* is back and (extended variant) the summary has been printed
runDrained ==
    /\ \A t \in DOMAIN task_pc : task_pc[t] = "done"
    /\ { start_order[k] : k \in 1..Len(start_order) } = DOMAIN task_pc
    /\ { finished_log[k].task : k \in 1..Len(finished_log) } = DOMAIN task_pc
    /\ released = DOMAIN task_pc
    /\ pending_tasks = <<>>
    /\ microtasks = <<>>
    /\ avail_slots = n_arg
    /\ variant = "extended" => (avail_slots = total_slots /\ Len(summaries) = 1)

\* C15: once a workload of M >= 1 tasks has been submitted with capacity
\* N >= 1, and unless some command fails, every task is eventually
\* admitted, executed and finished, pending_tasks becomes empty,
\* avail_slots returns to the capacity and the summary is emitted.
C15_NoLostWakeup ==
    (main_pc = "done" /\ Len(tasks) >= 1) ~> (someFailed \/ runDrained)

\* C15 witness: a run of three tasks on one slot, so that two wake-ups were
\* needed, has drained completely.
C15_Witness ==
    /\ Len(tasks) = 3
    /\ n_arg = 1
    /\ runDrained

min(a, b) == IF a <= b THEN a ELSE b

\* the indices from..to in increasing order (empty when from > to)
range(from, to) == [ k \in 1..(IF to >= from THEN to - from + 1 ELSE 0) |-> from + k - 1 ]

\* schedule has returned and no continuation or completion has run yet
scheduleReturned ==
    /\ main_pc = "done"
    /\ start_order = <<>>
    /\ \A t \in DOMAIN task_pc : task_pc[t] \in { "admitted", "waiting" }

\* C16: schedule calls acquireSlot for all M tasks before any task starts
\* or any command completes; when it returns exactly min(M, N) tasks hold
\* slots, avail_slots = N - min(M, N) and pending_tasks holds the other
\* tasks in submission order; when N >= M no task is ever enqueued and
\* avail_slots never drops below N - M.
C16_SubmissionNeverWaits ==
    LET M == Len(tasks)
        N == n_arg
    IN  /\ main_pc = "schedule" =>
            /\ start_order = <<>>
            /\ finished_log = <<>>
            /\ released = {}
        /\ (start_order # <<>> \/ released # {}) =>
            /\ main_pc = "done"
            /\ DOMAIN task_pc = 1..M
            /\ \A t \in 1..M : task_pc[t] # "unsubmitted"
        /\ scheduleReturned =>
            /\ holders = 1..min(M, N)
            /\ avail_slots = N - min(M, N)
            /\ pending_tasks = range(min(M, N) + 1, M)
            /\ microtasks = range(1, min(M, N))
        /\ (main_pc # "start" /\ N >= M) =>
            /\ pending_tasks = <<>>
            /\ \A t \in DOMAIN task_pc : task_pc[t] \notin { "waiting", "resumed" }
            /\ avail_slots >= N - M

\* C16 witness: schedule has just returned for three tasks on one slot:
\* task 1 holds it, tasks 2 and 3 wait in that order, nothing has started.
C16_Witness ==
    /\ scheduleReturned
    /\ Len(tasks) = 3
    /\ pending_tasks = << 2, 3 >>
    /\ avail_slots = 0

\* C17: in the extended variant thread_end_times changes only in a step
\* that executes releaseSlot; a release that hands its slot to a waiter
\* leaves it unchanged and a release that finds no waiter appends exactly
\* one timestamp, the current time; when the summary is computed for M
\* tasks and capacity N, thread_end_times holds exactly min(M, N) entries,
\* each between start_time and the end time used by the summary.
C17_IdleTimeTracking ==
    /\ [][ variant = "extended" =>
             /\ thread_end_times' # thread_end_times => releaseStep
             /\ releaseStep =>
                    IF Len(pending_tasks) > 0
                    THEN thread_end_times' = thread_end_times
                    ELSE thread_end_times' = Append(thread_end_times, now) ]_vars
    /\ [](Len(summaries) >= 1 =>
             /\ Len(thread_end_times) = min(Len(tasks), n_arg)
             /\ \A i \in 1..Len(thread_end_times) :
                    /\ start_time <= thread_end_times[i]
                    /\ thread_end_times[i] <= summaries[1].end_time)

\* C17 witness: the summary was computed for three tasks on two slots after
\* time had passed, so one release handed its slot over and two recorded
\* an idle timestamp, not all at the same instant.
C17_Witness ==
    /\ Len(summaries) = 1
    /\ Len(tasks) = 3
    /\ n_arg = 2
    /\ Len(thread_end_times) = 2
    /\ thread_end_times[1] < thread_end_times[2]

finishedTasks == { finished_log[k].task : k \in 1..Len(finished_log) }

\* C18: the "starting" lines are printed in strictly increasing task index
\* in every reachable state of every run (the tasks started so far are
\* 1, 2, ..., k in that order), whether or not they had to wait; with
\* capacity 1 a task starts only after its predecessor has finished.
C18_GlobalStartOrder ==
    /\ start_order = range(1, Len(start_order))
    /\ n_arg = 1 =>
         \A k \in 1..Len(start_order) :
            start_order[k] > 1 => (start_order[k] - 1) \in finishedTasks

\* C18 witness: on one slot, task 2 has started after task 1 finished
\* while task 3 still waits.
C18_Witness ==
    /\ n_arg = 1
    /\ start_order = << 1, 2 >>
    /\ finishedTasks = { 1 }
    /\ pending_tasks = << 3 >>

\* C19: in the extended variant, for every workload of M >= 0 tasks and
\* capacity N >= 1, once main has installed the uptime timer and every
\* command ends, the timer is eventually cleared (while the process
\* lives).
C19_TimerCleared ==
    (variant = "extended" /\ main_pc = "done")
        ~> (uptime_interval = "cleared" \/ proc # "running")

max(a, b) == IF a >= b THEN a ELSE b

\* the semaphore state and admission order that follow from the capacity,
\* the number of tasks submitted, the number of releases executed and the
\* number of continuations still queued, with no reference to the variant
slotAccounting(N, m, r, queued) ==
    LET W == max(m - N, 0)
    IN  [ avail_slots   |-> N - min(m, N) + max(r - W, 0),
          pending_tasks |-> range(N + min(r, W) + 1, m),
          start_order   |-> range(1, min(m, N) + min(r, W) - queued) ]

\* C20: the basic and the extended variant have the same slot accounting:
\* in either variant, after the same workload, capacity and sequence of
\* command completions, avail_slots, pending_tasks and the order of
\* admission are the values given by slotAccounting, which does not depend
\* on the variant, so the extended variant's utilization and completion
\* bookkeeping never changes them.
C20_VariantsAgree ==
    main_pc # "start" =>
        LET a == slotAccounting(n_arg, Cardinality(submitted),
                                Cardinality(released), Len(microtasks))
        IN  /\ avail_slots = a.avail_slots
            /\ pending_tasks = a.pending_tasks
            /\ start_order = a.start_order

\* C20 witness: the extended variant, three tasks on two slots, after one
\* release that handed its slot over and one that recorded idle time.
C20_Witness ==
    /\ variant = "extended"
    /\ Len(tasks) = 3
    /\ n_arg = 2
    /\ Cardinality(released) = 2
    /\ Len(thread_end_times) = 1
    /\ completed_tasks = 2
    /\ avail_slots = 1

====
